---- MODULE Spec2Model ----
(***************************************************************************)
(* A model of dungeonpy's map.py: the GameMap generator and its queries,   *)
(* the Dungeon floor cache, and the AgentManager occupancy index.          *)
(*                                                                         *)
(* Python values are modelled as follows.                                  *)
(*   - a coordinate pair (x, y) is the tuple <<x, y>>; None, where a       *)
(*     coordinate is expected, is the empty tuple <<>> (both are falsy or  *)
(*     absent in the code's tests);                                        *)
(*   - a dict is a sequence of [key, val] entries in insertion order (the  *)
(*     order Python iterates it in); deleting an entry closes the gap and  *)
(*     a key inserted again goes to the end;                               *)
(*   - a list of lists indexed from 0 (tiles[y][x]) is a function on       *)
(*     0..height-1 of functions on 0..width-1;                             *)
(*   - an object (an agent, a GameMap) is its identity.                    *)
(***************************************************************************)
EXTENDS Integers, Sequences, FiniteSets, TLC

VARIABLES
    width, height, tiles,        \* GameMap.width, .height, .tiles
    rooms,                       \* GameMap.rooms
    stairs_position,             \* GameMap.stairs_position
    spawn_point,                 \* GameMap.spawn_point
    pc,                          \* position inside generate_map
    attempts,                    \* iterations left of _generate_rooms' loop
    corridor,                    \* index i of _connect_rooms' loop
    agents,                      \* AgentManager.agents
    position,                    \* the position attribute of each agent
    floors,                      \* Dungeon.floors
    current_floor,               \* Dungeon.current_floor
    created,                     \* GameMap objects constructed so far
    before_reset,                \* floors as it was when reset_dungeon ran
    frame,                       \* arguments and locals of the call of a
                                 \* GameMap, Room or MapRenderer method
    lastCall                     \* the last call made, its arguments and result

vars == <<width, height, tiles, rooms, stairs_position, spawn_point, pc,
          attempts, corridor, agents, position, floors, current_floor,
          created, before_reset, frame, lastCall>>

mapVars == <<width, height, tiles, rooms, stairs_position, spawn_point, pc,
             attempts, corridor>>
agentVars == <<agents, position>>
dungeonVars == <<floors, current_floor, created, before_reset>>

\* The index of the model holds at most MaxEntries entries: no call is made
\* that would leave more.
MaxEntries == 2

\* A Dungeon of the model constructs at most MaxMaps GameMap objects, each
\* with one of MaxLayouts outcomes of generate_map.
MaxMaps == 4
MaxLayouts == 2

\* The size of the map generate_map is run on.
GenWidth == 13
GenHeight == 9

\* has_line_of_sight is called with max_range in 0..MaxRangeArg, and with
\* the default.
MaxRangeArg == 3

\* get_tile, set_tile and is_walkable are called with coordinates up to
\* TileArgMargin outside the map.
TileArgMargin == 1

\* Room.intersects is called on rooms with corner coordinates in
\* 0..RoomArgMax and width and height in 1..RoomArgMax.
RoomArgMax == 2

\* render_map is called with viewport sizes up to ViewMargin above the map's
\* and with centers up to ViewMargin outside the map.
ViewMargin == 2

None == <<>>
NoAgent == "None"

\* A call as lastCall records it.  from: the coordinate move_agent detached
\* the agent from (None when it detached nothing, and for the other calls).
CallFrom(op, a, p, r, f) ==
    [op |-> op, agent |-> a, pos |-> p, ret |-> r, from |-> f]

Call(op, a, p, r) == CallFrom(op, a, p, r, None)

\* No call has been made yet.
NoFrame == [op |-> "none"]

NoCall == Call("none", NoAgent, None, FALSE)

----------------------------------------------------------------------------
(* Sequence and dict helpers.                                              *)

Range(s) == {s[i] : i \in 1..Len(s)}

\* list.remove(v): drops the first occurrence of v.
RECURSIVE ListRemove(_, _)
ListRemove(s, v) ==
    IF s = <<>> THEN <<>>
    ELSE IF Head(s) = v THEN Tail(s)
    ELSE <<Head(s)>> \o ListRemove(Tail(s), v)

\* the number of occurrences of v in list s
RECURSIVE Count(_, _)
Count(s, v) ==
    IF s = <<>> THEN 0
    ELSE (IF Head(s) = v THEN 1 ELSE 0) + Count(Tail(s), v)

Keys(d) == {d[i].key : i \in 1..Len(d)}

KeyIndex(d, k) == CHOOSE i \in 1..Len(d) : d[i].key = k

\* d[k]
DictAt(d, k) == d[KeyIndex(d, k)].val

\* d.get(k, default)
DictGet(d, k, default) == IF k \in Keys(d) THEN DictAt(d, k) ELSE default

\* d[k] = v: in place for a key that is present, at the end for a new one
DictSet(d, k, v) ==
    IF k \in Keys(d)
    THEN [d EXCEPT ![KeyIndex(d, k)].val = v]
    ELSE Append(d, [key |-> k, val |-> v])

\* del d[k]
DictDel(d, k) ==
    LET i == KeyIndex(d, k)
    IN  SubSeq(d, 1, i - 1) \o SubSeq(d, i + 1, Len(d))

----------------------------------------------------------------------------
(* TileType and TileProperties.                                            *)

TileType == {"WALL", "FLOOR", "STAIRS_DOWN", "STAIRS_UP"}

TileWalkable(t) == t \in {"FLOOR", "STAIRS_DOWN", "STAIRS_UP"}

TileTransparent(t) == t \in {"FLOOR", "STAIRS_DOWN", "STAIRS_UP"}

----------------------------------------------------------------------------
(* GameMap queries.                                                        *)

is_valid_position(x, y) == 0 <= x /\ x < width /\ 0 <= y /\ y < height

is_walkable(x, y) ==
    IF ~is_valid_position(x, y) THEN FALSE ELSE TileWalkable(tiles[y][x])

----------------------------------------------------------------------------
(* Room.                                                                   *)

Room(x, y, w, h) == [x |-> x, y |-> y, width |-> w, height |-> h]

center(room) ==
    <<room.x + room.width \div 2, room.y + room.height \div 2>>

\* intersects with "self.x <= other.x + other.width".
intersects_touching(self, other) ==
    /\ self.x <= other.x + other.width
    /\ self.x + self.width > other.x
    /\ self.y < other.y + other.height
    /\ self.y + self.height > other.y

intersects(self, other) ==
    /\ self.x < other.x + other.width
    /\ self.x + self.width > other.x
    /\ self.y < other.y + other.height
    /\ self.y + self.height > other.y

contains_point(room, x, y) ==
    /\ room.x <= x /\ x < room.x + room.width
    /\ room.y <= y /\ y < room.y + room.height

\* get_inner_area with range(self.y, self.y + self.height) and
\* range(self.x, self.x + self.width): the room's walls included.
get_inner_area_with_walls(room) ==
    {<<x, y>> : x \in room.x..(room.x + room.width - 1),
                y \in room.y..(room.y + room.height - 1)}

\* The tiles get_inner_area lists (random.choice draws one of them: their
\* order in the list does not matter).
get_inner_area(room) ==
    {<<x, y>> : x \in (room.x + 1)..(room.x + room.width - 2),
                y \in (room.y + 1)..(room.y + room.height - 2)}

----------------------------------------------------------------------------
(* GameMap.generate_map.                                                   *)

min_rooms == 6
max_rooms == 12
min_room_size == 5
max_room_size == 15

\* self.tiles[y][x] = kind for every (x, y) of the set S
SetTiles(t, S, kind) ==
    [y \in DOMAIN t |-> [x \in DOMAIN t[y] |->
        IF <<x, y>> \in S THEN kind ELSE t[y][x]]]

_carve_room(t, room) ==
    SetTiles(t,
             {<<x, y>> : x \in (room.x + 1)..(room.x + room.width - 2),
                         y \in (room.y + 1)..(room.y + room.height - 2)},
             "FLOOR")

Min(a, b) == IF a < b THEN a ELSE b
Max(a, b) == IF a > b THEN a ELSE b

_create_horizontal_tunnel(t, x_start, x_end, y) ==
    SetTiles(t,
             {<<x, y>> : x \in {v \in Min(x_start, x_end)..Max(x_start, x_end) :
                                  /\ 0 < v /\ v < width - 1
                                  /\ 0 < y /\ y < height - 1}},
             "FLOOR")

_create_vertical_tunnel(t, y_start, y_end, x) ==
    SetTiles(t,
             {<<x, y>> : y \in {v \in Min(y_start, y_end)..Max(y_start, y_end) :
                                  /\ 0 < x /\ x < width - 1
                                  /\ 0 < v /\ v < height - 1}},
             "FLOOR")

\* _create_corridor with the first tunnel of each branch only.
_create_corridor_first_tunnel(t, start, end, horizontal_first) ==
    IF horizontal_first
    THEN _create_horizontal_tunnel(t, start[1], end[1], start[2])
    ELSE _create_vertical_tunnel(t, start[2], end[2], start[1])

\* horizontal_first: random.random() < 0.5
_create_corridor(t, start, end, horizontal_first) ==
    IF horizontal_first
    THEN _create_vertical_tunnel(
             _create_horizontal_tunnel(t, start[1], end[1], start[2]),
             start[2], end[2], end[1])
    ELSE _create_horizontal_tunnel(
             _create_vertical_tunnel(t, start[2], end[2], start[1]),
             start[1], end[1], end[2])

\* generate_map is entered: _generate_rooms draws num_rooms.
generate_map ==
    /\ pc = "new"
    /\ \E num_rooms \in min_rooms..max_rooms : attempts' = num_rooms
    /\ pc' = "rooms"
    /\ UNCHANGED <<width, height, tiles, rooms, stairs_position, spawn_point,
                   corridor, agentVars, dungeonVars, frame, lastCall>>

\* One iteration of _generate_rooms' loop is over.
NextAttempt ==
    /\ attempts' = attempts - 1
    /\ pc' = IF attempts = 1 THEN "connect" ELSE "rooms"

\* One iteration of _generate_rooms' loop that does not test the candidate
\* against the rooms accepted before it.
_generate_rooms_unchecked ==
    /\ pc = "rooms"
    /\ \E room_width \in min_room_size..max_room_size,
          room_height \in min_room_size..max_room_size :
          LET max_x == width - room_width - 1
              max_y == height - room_height - 1
          IN  IF max_x <= 1 \/ max_y <= 1
              THEN UNCHANGED <<tiles, rooms>>
              ELSE \E room_x \in 1..max_x, room_y \in 1..max_y :
                     LET new_room == Room(room_x, room_y, room_width, room_height)
                     IN  /\ tiles' = _carve_room(tiles, new_room)
                         /\ rooms' = Append(rooms, new_room)
    /\ NextAttempt
    /\ UNCHANGED <<width, height, stairs_position, spawn_point, corridor,
                   agentVars, dungeonVars, frame, lastCall>>

\* One iteration of _generate_rooms' loop with "+ 1" for "- 1" in max_x and
\* max_y: the candidate may reach the last column and the last row.
_generate_rooms_no_margin ==
    /\ pc = "rooms"
    /\ \E room_width \in min_room_size..max_room_size,
          room_height \in min_room_size..max_room_size :
          LET max_x == width - room_width + 1
              max_y == height - room_height + 1
          IN  IF max_x <= 1 \/ max_y <= 1
              THEN UNCHANGED <<tiles, rooms>>
              ELSE \E room_x \in 1..max_x, room_y \in 1..max_y :
                     LET new_room == Room(room_x, room_y, room_width, room_height)
                     IN  IF \E i \in 1..Len(rooms) : intersects(new_room, rooms[i])
                         THEN UNCHANGED <<tiles, rooms>>
                         ELSE /\ tiles' = _carve_room(tiles, new_room)
                              /\ rooms' = Append(rooms, new_room)
    /\ NextAttempt
    /\ UNCHANGED <<width, height, stairs_position, spawn_point, corridor,
                   agentVars, dungeonVars, frame, lastCall>>

\* One iteration of _generate_rooms' loop.
_generate_rooms ==
    /\ pc = "rooms"
    /\ \E room_width \in min_room_size..max_room_size,
          room_height \in min_room_size..max_room_size :
          LET max_x == width - room_width - 1
              max_y == height - room_height - 1
          IN  IF max_x <= 1 \/ max_y <= 1
              THEN UNCHANGED <<tiles, rooms>>
              ELSE \E room_x \in 1..max_x, room_y \in 1..max_y :
                     LET new_room == Room(room_x, room_y, room_width, room_height)
                     IN  IF \E i \in 1..Len(rooms) : intersects(new_room, rooms[i])
                         THEN UNCHANGED <<tiles, rooms>>
                         ELSE /\ tiles' = _carve_room(tiles, new_room)
                              /\ rooms' = Append(rooms, new_room)
    /\ NextAttempt
    /\ UNCHANGED <<width, height, stairs_position, spawn_point, corridor,
                   agentVars, dungeonVars, frame, lastCall>>

\* _connect_rooms: the early return, or one iteration of its loop (corridor
\* is the loop's i).
_connect_rooms ==
    /\ pc = "connect"
    /\ IF Len(rooms) < 2
       THEN /\ pc' = "stairs"
            /\ UNCHANGED <<tiles, corridor>>
       ELSE /\ \E horizontal_first \in BOOLEAN :
                 tiles' = _create_corridor(tiles, center(rooms[corridor + 1]),
                                           center(rooms[corridor + 2]),
                                           horizontal_first)
            /\ corridor' = corridor + 1
            /\ pc' = IF corridor + 1 = Len(rooms) - 1 THEN "stairs"
                     ELSE "connect"
    /\ UNCHANGED <<width, height, rooms, stairs_position, spawn_point,
                   attempts, agentVars, dungeonVars, frame, lastCall>>

\* _place_stairs with random.choice(self.rooms) for
\* random.choice(self.rooms[1:]).
_place_stairs_any_room ==
    /\ pc = "stairs"
    /\ IF Len(rooms) < 2
       THEN UNCHANGED <<tiles, stairs_position>>
       ELSE \E i \in 1..Len(rooms) :
              LET floor_tiles == get_inner_area(rooms[i])
              IN  IF floor_tiles = {}
                  THEN UNCHANGED <<tiles, stairs_position>>
                  ELSE \E stairs_pos \in floor_tiles :
                         /\ stairs_position' = stairs_pos
                         /\ tiles' = SetTiles(tiles, {stairs_pos}, "STAIRS_DOWN")
    /\ pc' = "spawn"
    /\ UNCHANGED <<width, height, rooms, spawn_point, attempts, corridor,
                   agentVars, dungeonVars, frame, lastCall>>

_place_stairs ==
    /\ pc = "stairs"
    /\ IF Len(rooms) < 2
       THEN UNCHANGED <<tiles, stairs_position>>
       ELSE \E i \in 2..Len(rooms) :
              LET floor_tiles == get_inner_area(rooms[i])
              IN  IF floor_tiles = {}
                  THEN UNCHANGED <<tiles, stairs_position>>
                  ELSE \E stairs_pos \in floor_tiles :
                         /\ stairs_position' = stairs_pos
                         /\ tiles' = SetTiles(tiles, {stairs_pos}, "STAIRS_DOWN")
    /\ pc' = "spawn"
    /\ UNCHANGED <<width, height, rooms, spawn_point, attempts, corridor,
                   agentVars, dungeonVars, frame, lastCall>>

_set_spawn_point ==
    /\ pc = "spawn"
    /\ IF rooms = <<>>
       THEN UNCHANGED spawn_point
       ELSE LET floor_tiles == get_inner_area(rooms[1])
            IN  IF floor_tiles = {}
                THEN UNCHANGED spawn_point
                ELSE \E tile \in floor_tiles : spawn_point' = tile
    /\ pc' = "done"
    /\ UNCHANGED <<width, height, tiles, rooms, stairs_position, attempts,
                   corridor, agentVars, dungeonVars, frame, lastCall>>

\* GameMap(GenWidth, GenHeight): all walls, nothing generated yet.
InitGen ==
    /\ width = GenWidth
    /\ height = GenHeight
    /\ tiles = [y \in 0..(GenHeight - 1) |-> [x \in 0..(GenWidth - 1) |-> "WALL"]]
    /\ rooms = <<>>
    /\ stairs_position = None
    /\ spawn_point = None
    /\ pc = "new"
    /\ attempts = 0
    /\ corridor = 0
    /\ agents = <<>>
    /\ position = <<>>
    /\ floors = <<>>
    /\ current_floor = 1
    /\ created = 0
    /\ before_reset = <<>>
    /\ frame = NoFrame
    /\ lastCall = NoCall

NextGen ==
    \/ generate_map
    \/ _generate_rooms
    \/ _connect_rooms
    \/ _place_stairs
    \/ _set_spawn_point

SpecGen == InitGen /\ [][NextGen]_vars

----------------------------------------------------------------------------
(* AgentManager.                                                           *)

\* The agents of the model.  "a1" and "a2" expose a position attribute
\* (None until the manager sets it, as test_map.py's TestAgent); "a3" is a
\* value without one.
Agents == {"a1", "a2", "a3"}

\* hasattr(agent, 'position')
HasPosition(a) == a \in {"a1", "a2"}

\* getattr(agent, 'position', None)
GetPosition(a) == IF HasPosition(a) THEN position[a] ELSE None

\* The map the AgentManager of the model is bound to: 3 columns by 2 rows,
\*     . . #
\*     # > #
AgentMapTiles ==
    [y \in 0..1 |-> [x \in 0..2 |->
        IF y = 0 /\ x \in {0, 1} THEN "FLOOR"
        ELSE IF y = 1 /\ x = 1 THEN "STAIRS_DOWN"
        ELSE "WALL"]]

\* The coordinates the calls of the model are made with: the three walkable
\* tiles, a wall, and a coordinate outside the map.
Coords == {<<0, 0>>, <<1, 0>>, <<1, 1>>, <<2, 1>>, <<-1, 0>>}

\* if hasattr(agent, 'position'): agent.position = pos
SetPosition(a, p) ==
    IF HasPosition(a) THEN [position EXCEPT ![a] = p] ELSE position

\* if pos not in self.agents: self.agents[pos] = []
\* self.agents[pos].append(agent)
AddAgent(d, a, p) == DictSet(d, p, Append(DictGet(d, p, <<>>), a))

\* DetachAgent without "if not agent_list: del self.agents[pos]".
DetachAgentNoPrune(d, a, p) == DictSet(d, p, ListRemove(DictAt(d, p), a))

\* agent_list.remove(agent); if not agent_list: del self.agents[pos]
DetachAgent(d, a, p) ==
    LET rest == ListRemove(DictAt(d, p), a)
    IN  IF rest = <<>> THEN DictDel(d, p) ELSE DictSet(d, p, rest)

get_agents_at(x, y) == DictGet(agents, <<x, y>>, <<>>)

is_position_occupied(x, y) == Len(get_agents_at(x, y)) > 0

\* can_move_to without the look at the tile's agents.
can_move_to_walkable_only(x, y, exclude_agent) == is_walkable(x, y)

can_move_to(x, y, exclude_agent) ==
    IF ~is_walkable(x, y) THEN FALSE
    ELSE LET agents_at_pos == get_agents_at(x, y)
             left == IF exclude_agent # NoAgent
                     THEN SelectSeq(agents_at_pos, LAMBDA a : a # exclude_agent)
                     ELSE agents_at_pos
         IN  Len(left) = 0

\* all_agents.extend(agent_list) for each agent_list in self.agents.values()
RECURSIVE Flatten(_)
Flatten(d) == IF d = <<>> THEN <<>> ELSE Head(d).val \o Flatten(Tail(d))

get_all_agents == Flatten(agents)

\* The total number of entries of the index.
Entries == Len(get_all_agents)

\* place_agent without "agent.position = pos".
place_agent_keeps_position(a, x, y) ==
    /\ is_walkable(x, y) => Entries < MaxEntries
    /\ IF ~is_walkable(x, y)
       THEN /\ lastCall' = Call("place_agent", a, <<x, y>>, FALSE)
            /\ UNCHANGED agentVars
       ELSE /\ agents' = AddAgent(agents, a, <<x, y>>)
            /\ UNCHANGED position
            /\ lastCall' = Call("place_agent", a, <<x, y>>, TRUE)
    /\ UNCHANGED <<mapVars, dungeonVars, frame>>

place_agent(a, x, y) ==
    /\ is_walkable(x, y) => Entries < MaxEntries
    /\ IF ~is_walkable(x, y)
       THEN /\ lastCall' = Call("place_agent", a, <<x, y>>, FALSE)
            /\ UNCHANGED agentVars
       ELSE /\ agents' = AddAgent(agents, a, <<x, y>>)
            /\ position' = SetPosition(a, <<x, y>>)
            /\ lastCall' = Call("place_agent", a, <<x, y>>, TRUE)
    /\ UNCHANGED <<mapVars, dungeonVars, frame>>

\* for pos, agent_list in self.agents.items(): the first entry, in the
\* dict's order, whose list holds the agent
remove_agent(a) ==
    /\ LET hits == {i \in 1..Len(agents) : a \in Range(agents[i].val)}
       IN  IF hits = {}
           THEN /\ lastCall' = Call("remove_agent", a, None, FALSE)
                /\ UNCHANGED agents
           ELSE LET first == CHOOSE i \in hits : \A j \in hits : i <= j
                IN  /\ agents' = DetachAgent(agents, a, agents[first].key)
                    /\ lastCall' = Call("remove_agent", a, None, TRUE)
    /\ UNCHANGED <<position, mapVars, dungeonVars, frame>>

\* move_agent without lines 393-397: the agent stays listed on its old tile.
move_agent_keeps_old(a, new_x, new_y) ==
    /\ IF ~is_walkable(new_x, new_y)
       THEN /\ lastCall' = Call("move_agent", a, <<new_x, new_y>>, FALSE)
            /\ UNCHANGED agentVars
       ELSE /\ Entries < MaxEntries
            /\ agents' = AddAgent(agents, a, <<new_x, new_y>>)
            /\ position' = SetPosition(a, <<new_x, new_y>>)
            /\ lastCall' = CallFrom("move_agent", a, <<new_x, new_y>>, TRUE,
                                    GetPosition(a))
    /\ UNCHANGED <<mapVars, dungeonVars, frame>>

\* move_agent with the old position left before the destination is tested.
move_agent_detaches_first(a, new_x, new_y) ==
    /\ LET old_pos == GetPosition(a)
           listed == /\ old_pos # None
                     /\ old_pos \in Keys(agents)
                     /\ a \in Range(DictAt(agents, old_pos))
           detached == IF listed THEN DetachAgent(agents, a, old_pos)
                       ELSE agents
       IN  IF ~is_walkable(new_x, new_y)
           THEN /\ agents' = detached
                /\ lastCall' = Call("move_agent", a, <<new_x, new_y>>, FALSE)
                /\ UNCHANGED position
           ELSE /\ Len(Flatten(detached)) < MaxEntries
                /\ agents' = AddAgent(detached, a, <<new_x, new_y>>)
                /\ position' = SetPosition(a, <<new_x, new_y>>)
                /\ lastCall' = CallFrom("move_agent", a, <<new_x, new_y>>, TRUE,
                                        IF listed THEN old_pos ELSE None)
    /\ UNCHANGED <<mapVars, dungeonVars, frame>>

\* move_agent with can_move_to for is_walkable: an occupied tile is refused.
move_agent_refuses_occupied(a, new_x, new_y) ==
    /\ IF ~can_move_to(new_x, new_y, a)
       THEN /\ lastCall' = Call("move_agent", a, <<new_x, new_y>>, FALSE)
            /\ UNCHANGED agentVars
       ELSE LET old_pos == GetPosition(a)
                listed == /\ old_pos # None
                          /\ old_pos \in Keys(agents)
                          /\ a \in Range(DictAt(agents, old_pos))
                detached == IF listed THEN DetachAgent(agents, a, old_pos)
                            ELSE agents
            IN  /\ Len(Flatten(detached)) < MaxEntries
                /\ agents' = AddAgent(detached, a, <<new_x, new_y>>)
                /\ position' = SetPosition(a, <<new_x, new_y>>)
                /\ lastCall' = CallFrom("move_agent", a, <<new_x, new_y>>, TRUE,
                                        IF listed THEN old_pos ELSE None)
    /\ UNCHANGED <<mapVars, dungeonVars, frame>>

move_agent(a, new_x, new_y) ==
    /\ IF ~is_walkable(new_x, new_y)
       THEN /\ lastCall' = Call("move_agent", a, <<new_x, new_y>>, FALSE)
            /\ UNCHANGED agentVars
       ELSE LET old_pos == GetPosition(a)
                listed == /\ old_pos # None
                          /\ old_pos \in Keys(agents)
                          /\ a \in Range(DictAt(agents, old_pos))
                detached == IF listed THEN DetachAgent(agents, a, old_pos)
                            ELSE agents
            IN  /\ Len(Flatten(detached)) < MaxEntries
                /\ agents' = AddAgent(detached, a, <<new_x, new_y>>)
                /\ position' = SetPosition(a, <<new_x, new_y>>)
                /\ lastCall' = CallFrom("move_agent", a, <<new_x, new_y>>, TRUE,
                                        IF listed THEN old_pos ELSE None)
    /\ UNCHANGED <<mapVars, dungeonVars, frame>>

clear_all_agents ==
    /\ agents' = <<>>
    /\ lastCall' = Call("clear_all_agents", NoAgent, None, TRUE)
    /\ UNCHANGED <<position, mapVars, dungeonVars, frame>>

call_get_agents_at(x, y) ==
    /\ lastCall' = Call("get_agents_at", NoAgent, <<x, y>>, get_agents_at(x, y))
    /\ UNCHANGED <<agentVars, mapVars, dungeonVars, frame>>

call_is_position_occupied(x, y) ==
    /\ lastCall' = Call("is_position_occupied", NoAgent, <<x, y>>,
                        is_position_occupied(x, y))
    /\ UNCHANGED <<agentVars, mapVars, dungeonVars, frame>>

call_can_move_to(x, y, exclude_agent) ==
    /\ lastCall' = Call("can_move_to", exclude_agent, <<x, y>>,
                        can_move_to(x, y, exclude_agent))
    /\ UNCHANGED <<agentVars, mapVars, dungeonVars, frame>>

InitAgents ==
    /\ width = 3
    /\ height = 2
    /\ tiles = AgentMapTiles
    /\ rooms = <<>>
    /\ stairs_position = None
    /\ spawn_point = None
    /\ pc = "done"
    /\ attempts = 0
    /\ corridor = 0
    /\ agents = <<>>
    /\ position = [a \in {b \in Agents : HasPosition(b)} |-> None]
    /\ floors = <<>>
    /\ current_floor = 1
    /\ created = 0
    /\ before_reset = <<>>
    /\ frame = NoFrame
    /\ lastCall = NoCall

NextAgents ==
    \/ \E a \in Agents, p \in Coords : place_agent(a, p[1], p[2])
    \/ \E a \in Agents : remove_agent(a)
    \/ \E a \in Agents, p \in Coords : move_agent(a, p[1], p[2])
    \/ clear_all_agents
    \/ \E p \in Coords : call_get_agents_at(p[1], p[2])
    \/ \E p \in Coords : call_is_position_occupied(p[1], p[2])
    \/ \E p \in Coords, a \in Agents \cup {NoAgent} :
           call_can_move_to(p[1], p[2], a)

SpecAgents == InitAgents /\ [][NextAgents]_vars

\* A caller that calls place_agent and move_agent only when
\* can_move_to(x, y, exclude_agent=agent) has just returned True.
guarded_place_agent(a, x, y) ==
    /\ lastCall = Call("can_move_to", a, <<x, y>>, TRUE)
    /\ place_agent(a, x, y)

guarded_move_agent(a, new_x, new_y) ==
    /\ lastCall = Call("can_move_to", a, <<new_x, new_y>>, TRUE)
    /\ move_agent(a, new_x, new_y)

NextGuarded ==
    \/ \E p \in Coords, a \in Agents : call_can_move_to(p[1], p[2], a)
    \/ \E a \in Agents, p \in Coords : guarded_place_agent(a, p[1], p[2])
    \/ \E a \in Agents, p \in Coords : guarded_move_agent(a, p[1], p[2])
    \/ \E a \in Agents : remove_agent(a)

SpecGuarded == InitAgents /\ [][NextGuarded]_vars

----------------------------------------------------------------------------
(* Dungeon.                                                                *)

\* self.max_floors = 2
max_floors == 2

\* A GameMap object held by a Dungeon: id is the object's identity (the
\* number of GameMap objects constructed up to and including it), layout
\* stands for what generate_map's random draws made of it (rooms, stairs and
\* spawn).
GameMapObject(id, floor_number, layout) ==
    [id |-> id, floor_number |-> floor_number, layout |-> layout]

Layouts == 1..MaxLayouts

\* _generate_floor(floor_number): a new GameMap, generated and cached.
_generate_floor(floor_number, layout) ==
    /\ created < MaxMaps
    /\ created' = created + 1
    /\ floors' = DictSet(floors, floor_number,
                         GameMapObject(created + 1, floor_number, layout))

\* get_current_floor without "if self.current_floor not in self.floors".
get_current_floor_regenerates ==
    /\ \E layout \in Layouts : _generate_floor(current_floor, layout)
    /\ lastCall' = Call("get_current_floor", NoAgent, None,
                        DictAt(floors', current_floor))
    /\ UNCHANGED <<current_floor, before_reset, mapVars, agentVars, frame>>

get_current_floor ==
    /\ IF current_floor \notin Keys(floors)
       THEN \E layout \in Layouts : _generate_floor(current_floor, layout)
       ELSE UNCHANGED <<floors, created>>
    /\ lastCall' = Call("get_current_floor", NoAgent, None,
                        DictAt(floors', current_floor))
    /\ UNCHANGED <<current_floor, before_reset, mapVars, agentVars, frame>>

\* go_down_stairs with "current_floor > max_floors" for ">=".
go_down_stairs_past_last ==
    /\ IF current_floor > max_floors
       THEN /\ lastCall' = Call("go_down_stairs", NoAgent, None, FALSE)
            /\ UNCHANGED current_floor
       ELSE /\ current_floor' = current_floor + 1
            /\ lastCall' = Call("go_down_stairs", NoAgent, None, TRUE)
    /\ UNCHANGED <<floors, created, before_reset, mapVars, agentVars, frame>>

go_down_stairs ==
    /\ IF current_floor >= max_floors
       THEN /\ lastCall' = Call("go_down_stairs", NoAgent, None, FALSE)
            /\ UNCHANGED current_floor
       ELSE /\ current_floor' = current_floor + 1
            /\ lastCall' = Call("go_down_stairs", NoAgent, None, TRUE)
    /\ UNCHANGED <<floors, created, before_reset, mapVars, agentVars, frame>>

\* go_up_stairs with "current_floor < 1" for "<=".
go_up_stairs_past_first ==
    /\ IF current_floor < 1
       THEN /\ lastCall' = Call("go_up_stairs", NoAgent, None, FALSE)
            /\ UNCHANGED current_floor
       ELSE /\ current_floor' = current_floor - 1
            /\ lastCall' = Call("go_up_stairs", NoAgent, None, TRUE)
    /\ UNCHANGED <<floors, created, before_reset, mapVars, agentVars, frame>>

go_up_stairs ==
    /\ IF current_floor <= 1
       THEN /\ lastCall' = Call("go_up_stairs", NoAgent, None, FALSE)
            /\ UNCHANGED current_floor
       ELSE /\ current_floor' = current_floor - 1
            /\ lastCall' = Call("go_up_stairs", NoAgent, None, TRUE)
    /\ UNCHANGED <<floors, created, before_reset, mapVars, agentVars, frame>>

\* reset_dungeon without self.floors.clear().
reset_dungeon_keeps_floors ==
    /\ before_reset' = floors
    /\ current_floor' = 1
    /\ lastCall' = Call("reset_dungeon", NoAgent, None, TRUE)
    /\ UNCHANGED <<floors, created, mapVars, agentVars, frame>>

reset_dungeon ==
    /\ before_reset' = floors
    /\ floors' = <<>>
    /\ current_floor' = 1
    /\ lastCall' = Call("reset_dungeon", NoAgent, None, TRUE)
    /\ UNCHANGED <<created, mapVars, agentVars, frame>>

InitDungeon ==
    /\ width = 0
    /\ height = 0
    /\ tiles = <<>>
    /\ rooms = <<>>
    /\ stairs_position = None
    /\ spawn_point = None
    /\ pc = "done"
    /\ attempts = 0
    /\ corridor = 0
    /\ agents = <<>>
    /\ position = <<>>
    /\ floors = <<>>
    /\ current_floor = 1
    /\ created = 0
    /\ before_reset = <<>>
    /\ frame = NoFrame
    /\ lastCall = NoCall

NextDungeon ==
    \/ get_current_floor
    \/ go_down_stairs
    \/ go_up_stairs
    \/ reset_dungeon

SpecDungeon == InitDungeon /\ [][NextDungeon]_vars

----------------------------------------------------------------------------
(* GameMap.has_line_of_sight.                                              *)

Abs(n) == IF n < 0 THEN -n ELSE n

\* max_range: int = 8
default_max_range == 8

\* The two maps has_line_of_sight is called on in the model, 4 columns by 3
\* rows:
\*     . . # .        . . . .
\*     . # < .        . . . .
\*     . . . >        . . . .
LosMapTiles ==
    [y \in 0..2 |-> [x \in 0..3 |->
        IF <<x, y>> \in {<<2, 0>>, <<1, 1>>} THEN "WALL"
        ELSE IF <<x, y>> = <<2, 1>> THEN "STAIRS_UP"
        ELSE IF <<x, y>> = <<3, 2>> THEN "STAIRS_DOWN"
        ELSE "FLOOR"]]

LosOpenTiles == [y \in 0..2 |-> [x \in 0..3 |-> "FLOOR"]]

\* The points has_line_of_sight is called with: the tiles of the map and the
\* ring of points around it.
LosPoints == {<<x, y>> : x \in -1..4, y \in -1..3}

\* The values of max_range: 0..MaxRangeArg and the default.
LosRanges == (0..MaxRangeArg) \cup {default_max_range}

\* The locals of has_line_of_sight while the loop runs (pc = "loop") and
\* when it has returned (pc = "done").
LosFrame(at, x1, y1, x2, y2, max_range, x, y, err) ==
    [op |-> "has_line_of_sight", pc |-> at, x1 |-> x1, y1 |-> y1,
     x2 |-> x2, y2 |-> y2, max_range |-> max_range,
     x |-> x, y |-> y, err |-> err]

LosReturn(f, r) ==
    /\ frame' = [f EXCEPT !.pc = "done"]
    /\ lastCall' = CallFrom("has_line_of_sight", NoAgent, <<f.x2, f.y2>>, r,
                            <<f.x1, f.y1>>)

\* One iteration's advance with "e2 < dy" for "e2 < dx".
LosStepWrongTest(x, y, err, dx, dy, sx, sy) ==
    LET e2 == 2 * err
        step_x == e2 > -dy
        err_x == IF step_x THEN err - dy ELSE err
        step_y == e2 < dy
    IN  [x |-> IF step_x THEN x + sx ELSE x,
         y |-> IF step_y THEN y + sy ELSE y,
         err |-> IF step_y THEN err_x + dx ELSE err_x]

\* One iteration's advance: e2 = 2 * err; if e2 > -dy: err -= dy; x += sx;
\* if e2 < dx: err += dx; y += sy.
LosStep(x, y, err, dx, dy, sx, sy) ==
    LET e2 == 2 * err
        step_x == e2 > -dy
        err_x == IF step_x THEN err - dy ELSE err
        step_y == e2 < dx
    IN  [x |-> IF step_x THEN x + sx ELSE x,
         y |-> IF step_y THEN y + sy ELSE y,
         err |-> IF step_y THEN err_x + dx ELSE err_x]

\* The locals after one iteration's advance from the locals f.
LosAdvance(f) ==
    LET n == LosStep(f.x, f.y, f.err, Abs(f.x2 - f.x1), Abs(f.y2 - f.y1),
                     IF f.x1 < f.x2 THEN 1 ELSE -1,
                     IF f.y1 < f.y2 THEN 1 ELSE -1)
    IN  [f EXCEPT !.x = n.x, !.y = n.y, !.err = n.err]

\* has_line_of_sight is called, without the test of the distance.
has_line_of_sight_any_range(x1, y1, x2, y2, max_range) ==
    /\ frame = NoFrame
    /\ frame' = LosFrame("loop", x1, y1, x2, y2, max_range, x1, y1,
                         Abs(x2 - x1) - Abs(y2 - y1))
    /\ UNCHANGED <<lastCall, mapVars, agentVars, dungeonVars>>

\* has_line_of_sight is called, with "distance >= max_range".
has_line_of_sight_short_range(x1, y1, x2, y2, max_range) ==
    /\ frame = NoFrame
    /\ LET distance == Abs(x1 - x2) + Abs(y1 - y2)
           dx == Abs(x2 - x1)
           dy == Abs(y2 - y1)
           f == LosFrame("loop", x1, y1, x2, y2, max_range, x1, y1, dx - dy)
       IN  IF distance >= max_range
           THEN LosReturn(f, FALSE)
           ELSE frame' = f /\ UNCHANGED lastCall
    /\ UNCHANGED <<mapVars, agentVars, dungeonVars>>

\* has_line_of_sight is called: lines 242-253, up to the loop.  The method
\* changes nothing of the map, so a behaviour holds one call of it.
has_line_of_sight(x1, y1, x2, y2, max_range) ==
    /\ frame = NoFrame
    /\ LET distance == Abs(x1 - x2) + Abs(y1 - y2)
           dx == Abs(x2 - x1)
           dy == Abs(y2 - y1)
           f == LosFrame("loop", x1, y1, x2, y2, max_range, x1, y1, dx - dy)
       IN  IF distance > max_range
           THEN LosReturn(f, FALSE)
           ELSE frame' = f /\ UNCHANGED lastCall
    /\ UNCHANGED <<mapVars, agentVars, dungeonVars>>

\* One evaluation of the loop's condition and, when it holds, one iteration
\* that tests the point reached by the advance in place of the current one.
los_loop_tests_after_step ==
    /\ frame.op = "has_line_of_sight" /\ frame.pc = "loop"
    /\ LET f == frame
           n == LosAdvance(f)
       IN  IF ~(f.x # f.x2 \/ f.y # f.y2)
           THEN LosReturn(f, TRUE)
           ELSE IF ~is_valid_position(n.x, n.y)
           THEN LosReturn(n, FALSE)
           ELSE IF ~TileTransparent(tiles[n.y][n.x])
           THEN LosReturn(n, FALSE)
           ELSE /\ frame' = n
                /\ UNCHANGED lastCall
    /\ UNCHANGED <<mapVars, agentVars, dungeonVars>>

\* One evaluation of the loop's condition and, when it holds, one iteration
\* of the loop (lines 255-269).
los_loop ==
    /\ frame.op = "has_line_of_sight" /\ frame.pc = "loop"
    /\ LET f == frame
           n == LosAdvance(f)
       IN  IF ~(f.x # f.x2 \/ f.y # f.y2)
           THEN LosReturn(f, TRUE)
           ELSE IF ~is_valid_position(f.x, f.y)
           THEN LosReturn(f, FALSE)
           ELSE IF ~TileTransparent(tiles[f.y][f.x])
           THEN LosReturn(f, FALSE)
           ELSE /\ frame' = n
                /\ UNCHANGED lastCall
    /\ UNCHANGED <<mapVars, agentVars, dungeonVars>>

InitLos ==
    /\ width = 4
    /\ height = 3
    /\ tiles \in {LosMapTiles, LosOpenTiles}
    /\ rooms = <<>>
    /\ stairs_position = None
    /\ spawn_point = None
    /\ pc = "done"
    /\ attempts = 0
    /\ corridor = 0
    /\ agents = <<>>
    /\ position = <<>>
    /\ floors = <<>>
    /\ current_floor = 1
    /\ created = 0
    /\ before_reset = <<>>
    /\ frame = NoFrame
    /\ lastCall = NoCall

NextLos ==
    \/ \E p \in LosPoints, q \in LosPoints, max_range \in LosRanges :
           has_line_of_sight(p[1], p[2], q[1], q[2], max_range)
    \/ los_loop

SpecLos == InitLos /\ [][NextLos]_vars

----------------------------------------------------------------------------
(* GameMap.get_tile, set_tile, is_walkable and is_valid_position, called   *)
(* on GameMap(2, 2).                                                       *)

\* get_tile's None
NoTile == "None"

\* The coordinates the tile methods are called with: the map's and those up
\* to TileArgMargin outside it.
TileArgs ==
    ((-TileArgMargin)..(width - 1 + TileArgMargin))
        \X ((-TileArgMargin)..(height - 1 + TileArgMargin))

TileFrame(op, x, y, tile_type) ==
    [op |-> op, pc |-> "done", x |-> x, y |-> y, tile_type |-> tile_type]

get_tile(x, y) ==
    IF ~is_valid_position(x, y) THEN NoTile ELSE tiles[y][x]

\* set_tile that tests only "x < self.width and y < self.height": a negative
\* index of a list counts from its end.
set_tile_negative_index(x, y, tile_type) ==
    /\ frame' = TileFrame("set_tile", x, y, tile_type)
    /\ IF ~(x < width /\ y < height /\ -width <= x /\ -height <= y)
       THEN /\ lastCall' = Call("set_tile", NoAgent, <<x, y>>, FALSE)
            /\ UNCHANGED tiles
       ELSE /\ tiles' = [tiles EXCEPT ![y % height][x % width] = tile_type]
            /\ lastCall' = Call("set_tile", NoAgent, <<x, y>>, TRUE)
    /\ UNCHANGED <<width, height, rooms, stairs_position, spawn_point, pc,
                   attempts, corridor, agentVars, dungeonVars>>

set_tile(x, y, tile_type) ==
    /\ frame' = TileFrame("set_tile", x, y, tile_type)
    /\ IF ~is_valid_position(x, y)
       THEN /\ lastCall' = Call("set_tile", NoAgent, <<x, y>>, FALSE)
            /\ UNCHANGED tiles
       ELSE /\ tiles' = [tiles EXCEPT ![y][x] = tile_type]
            /\ lastCall' = Call("set_tile", NoAgent, <<x, y>>, TRUE)
    /\ UNCHANGED <<width, height, rooms, stairs_position, spawn_point, pc,
                   attempts, corridor, agentVars, dungeonVars>>

call_get_tile(x, y) ==
    /\ frame' = TileFrame("get_tile", x, y, NoTile)
    /\ lastCall' = Call("get_tile", NoAgent, <<x, y>>, get_tile(x, y))
    /\ UNCHANGED <<mapVars, agentVars, dungeonVars>>

call_is_walkable(x, y) ==
    /\ frame' = TileFrame("is_walkable", x, y, NoTile)
    /\ lastCall' = Call("is_walkable", NoAgent, <<x, y>>, is_walkable(x, y))
    /\ UNCHANGED <<mapVars, agentVars, dungeonVars>>

call_is_valid_position(x, y) ==
    /\ frame' = TileFrame("is_valid_position", x, y, NoTile)
    /\ lastCall' = Call("is_valid_position", NoAgent, <<x, y>>,
                        is_valid_position(x, y))
    /\ UNCHANGED <<mapVars, agentVars, dungeonVars>>

InitTiles ==
    /\ width = 2
    /\ height = 2
    /\ tiles = [y \in 0..1 |-> [x \in 0..1 |-> "WALL"]]
    /\ rooms = <<>>
    /\ stairs_position = None
    /\ spawn_point = None
    /\ pc = "new"
    /\ attempts = 0
    /\ corridor = 0
    /\ agents = <<>>
    /\ position = <<>>
    /\ floors = <<>>
    /\ current_floor = 1
    /\ created = 0
    /\ before_reset = <<>>
    /\ frame = NoFrame
    /\ lastCall = NoCall

NextTiles ==
    \/ \E p \in TileArgs, tile_type \in TileType :
           set_tile(p[1], p[2], tile_type)
    \/ \E p \in TileArgs : call_get_tile(p[1], p[2])
    \/ \E p \in TileArgs : call_is_walkable(p[1], p[2])
    \/ \E p \in TileArgs : call_is_valid_position(p[1], p[2])

SpecTiles == InitTiles /\ [][NextTiles]_vars

----------------------------------------------------------------------------
(* Room.intersects, called on two rooms.                                   *)

\* The rooms intersects is called on: corner in 0..RoomArgMax, width and
\* height in 1..RoomArgMax.
RoomArgs ==
    {Room(x, y, w, h) : x \in 0..RoomArgMax, y \in 0..RoomArgMax,
                        w \in 1..RoomArgMax, h \in 1..RoomArgMax}

\* self.intersects(other).  The method changes nothing, so a behaviour holds
\* one call of it.
call_intersects(self, other) ==
    /\ frame = NoFrame
    /\ frame' = [op |-> "intersects", pc |-> "done",
                 self |-> self, other |-> other]
    /\ lastCall' = Call("intersects", NoAgent, None, intersects(self, other))
    /\ UNCHANGED <<mapVars, agentVars, dungeonVars>>

InitRoom ==
    /\ width = 0
    /\ height = 0
    /\ tiles = <<>>
    /\ rooms = <<>>
    /\ stairs_position = None
    /\ spawn_point = None
    /\ pc = "new"
    /\ attempts = 0
    /\ corridor = 0
    /\ agents = <<>>
    /\ position = <<>>
    /\ floors = <<>>
    /\ current_floor = 1
    /\ created = 0
    /\ before_reset = <<>>
    /\ frame = NoFrame
    /\ lastCall = NoCall

NextRoom ==
    \E self \in RoomArgs, other \in RoomArgs : call_intersects(self, other)

SpecRoom == InitRoom /\ [][NextRoom]_vars

----------------------------------------------------------------------------
(* MapRenderer.render_map, called on the map of the AgentManager.          *)

\* hasattr(agent, 'symbol'): a1 is the "@" and a2 the "g" of the tests, a3
\* has no symbol.
HasSymbol(a) == a \in {"a1", "a2"}

Symbol(a) == IF a = "a1" THEN "@" ELSE "g"

\* TileProperties.get_symbol
TileSymbol(t) ==
    CASE t = "WALL" -> "#"
      [] t = "FLOOR" -> "."
      [] t = "STAIRS_DOWN" -> ">"
      [] t = "STAIRS_UP" -> "<"

\* An optional int argument: None, or <<v>> for the value v.
Given(arg) == arg # None

\* The viewport sizes render_map is called with for a map dimension dim.
ViewportArgs(dim) == {None} \cup {<<v>> : v \in 0..(dim + ViewMargin)}

\* The center coordinates render_map is called with.
CenterArgs(dim) ==
    {None} \cup {<<c>> : c \in (-ViewMargin)..(dim - 1 + ViewMargin)}

\* The indexes render_map is called with: each is what place_agent calls on
\* the empty index leave.
RenderIndexes ==
    {<<>>,
     <<[key |-> <<0, 0>>, val |-> <<"a1">>]>>,
     <<[key |-> <<1, 0>>, val |-> <<"a3", "a1">>]>>,
     <<[key |-> <<1, 1>>, val |-> <<"a2", "a3">>],
       [key |-> <<0, 0>>, val |-> <<"a1">>]>>}

\* range(a, b) as a list
RangeList(a, b) == [i \in 1..(b - a) |-> a + i - 1]

\* The viewport bounds with the window moved back into the map at the far
\* edge: start = max(0, min(center - viewport // 2, dimension - viewport)).
render_bounds_shifted(viewport_width, viewport_height, center_x, center_y) ==
    IF Given(center_x) /\ Given(center_y)
    THEN LET start_x == Max(0, Min(center_x[1] - viewport_width \div 2,
                                   width - viewport_width))
             start_y == Max(0, Min(center_y[1] - viewport_height \div 2,
                                   height - viewport_height))
         IN  [start_x |-> start_x, start_y |-> start_y,
              end_x |-> Min(width, start_x + viewport_width),
              end_y |-> Min(height, start_y + viewport_height)]
    ELSE [start_x |-> 0, start_y |-> 0,
          end_x |-> Min(width, viewport_width),
          end_y |-> Min(height, viewport_height)]

\* The viewport bounds (lines 503-511), the viewport sizes being ints.
render_bounds(viewport_width, viewport_height, center_x, center_y) ==
    IF Given(center_x) /\ Given(center_y)
    THEN LET start_x == Max(0, center_x[1] - viewport_width \div 2)
             start_y == Max(0, center_y[1] - viewport_height \div 2)
         IN  [start_x |-> start_x, start_y |-> start_y,
              end_x |-> Min(width, start_x + viewport_width),
              end_y |-> Min(height, start_y + viewport_height)]
    ELSE [start_x |-> 0, start_y |-> 0,
          end_x |-> Min(width, viewport_width),
          end_y |-> Min(height, viewport_height)]

\* The character of the cell (x, y): the body of the inner loop.
render_cell(x, y) ==
    LET agents_here == get_agents_at(x, y)
        tile == get_tile(x, y)
    IN  IF agents_here # <<>> /\ HasSymbol(agents_here[1])
        THEN Symbol(agents_here[1])
        ELSE IF tile # NoTile THEN TileSymbol(tile) ELSE " "

\* rendered_lines: a row is the list of its characters.
render_map(viewport_width, viewport_height, center_x, center_y) ==
    LET vw == IF Given(viewport_width) THEN viewport_width[1] ELSE width
        vh == IF Given(viewport_height) THEN viewport_height[1] ELSE height
        b == render_bounds(vw, vh, center_x, center_y)
        ys == RangeList(b.start_y, b.end_y)
        xs == RangeList(b.start_x, b.end_x)
    IN  [i \in 1..Len(ys) |-> [j \in 1..Len(xs) |-> render_cell(xs[j], ys[i])]]

\* self.agents after a lookup made with setdefault((x, y), []).
agents_after_setdefault(d, x, y) ==
    IF <<x, y>> \in Keys(d) THEN d ELSE DictSet(d, <<x, y>>, <<>>)

\* self.agents after get_agents_at's self.agents.get((x, y), []).
agents_after_get(d, x, y) == d

\* The cells render_map looks up, in the order of its two loops.
render_cells(viewport_width, viewport_height, center_x, center_y) ==
    LET vw == IF Given(viewport_width) THEN viewport_width[1] ELSE width
        vh == IF Given(viewport_height) THEN viewport_height[1] ELSE height
        b == render_bounds(vw, vh, center_x, center_y)
        ys == RangeList(b.start_y, b.end_y)
        xs == RangeList(b.start_x, b.end_x)
    IN  [k \in 1..(Len(ys) * Len(xs)) |->
            <<xs[((k - 1) % Len(xs)) + 1], ys[((k - 1) \div Len(xs)) + 1]>>]

\* self.agents after the get_agents_at calls for the cells.
RECURSIVE agents_after_lookups(_, _)
agents_after_lookups(d, cells) ==
    IF cells = <<>> THEN d
    ELSE agents_after_lookups(
             agents_after_get(d, Head(cells)[1], Head(cells)[2]), Tail(cells))

\* render_map is called.  A behaviour holds one call of a MapRenderer
\* method.
call_render_map(viewport_width, viewport_height, center_x, center_y) ==
    /\ frame = NoFrame
    /\ frame' = [op |-> "render_map", pc |-> "done",
                 viewport_width |-> viewport_width,
                 viewport_height |-> viewport_height,
                 center_x |-> center_x, center_y |-> center_y]
    /\ lastCall' = Call("render_map", NoAgent, None,
                        render_map(viewport_width, viewport_height,
                                   center_x, center_y))
    /\ agents' = agents_after_lookups(agents,
                      render_cells(viewport_width, viewport_height,
                                   center_x, center_y))
    /\ UNCHANGED <<mapVars, position, dungeonVars>>

\* The lines of get_map_info's text, each a label and the values formatted
\* into it; the floor number is not part of the model's GameMap.
get_map_info ==
    <<<<"Map size", <<width, height>>>>, <<"Rooms", <<Len(rooms)>>>>>>
        \o (IF stairs_position # None
            THEN <<<<"Stairs at", stairs_position>>>> ELSE <<>>)
        \o (IF spawn_point # None
            THEN <<<<"Spawn point", spawn_point>>>> ELSE <<>>)

call_get_map_info ==
    /\ frame = NoFrame
    /\ frame' = [op |-> "get_map_info", pc |-> "done"]
    /\ lastCall' = Call("get_map_info", NoAgent, None, get_map_info)
    /\ UNCHANGED <<mapVars, agentVars, dungeonVars>>

InitRender ==
    /\ width = 3
    /\ height = 2
    /\ tiles = AgentMapTiles
    /\ rooms = <<>>
    /\ stairs_position = None
    /\ spawn_point = None
    /\ pc = "done"
    /\ attempts = 0
    /\ corridor = 0
    /\ agents \in RenderIndexes
    /\ position = [a \in {"a1", "a2"} |->
                      IF \E i \in 1..Len(agents) : a \in Range(agents[i].val)
                      THEN agents[CHOOSE i \in 1..Len(agents) :
                                      a \in Range(agents[i].val)].key
                      ELSE None]
    /\ floors = <<>>
    /\ current_floor = 1
    /\ created = 0
    /\ before_reset = <<>>
    /\ frame = NoFrame
    /\ lastCall = NoCall

NextRender ==
    \/ \E viewport_width \in ViewportArgs(width),
          viewport_height \in ViewportArgs(height),
          center_x \in CenterArgs(width), center_y \in CenterArgs(height) :
           call_render_map(viewport_width, viewport_height, center_x, center_y)
    \/ call_get_map_info

SpecRender == InitRender /\ [][NextRender]_vars

----------------------------------------------------------------------------
(* Claims about the AgentManager, checked under SpecAgents.                *)

\* C1: get_all_agents() has (successful place_agent calls) minus (successful
\* remove_agent calls) entries: a successful place_agent adds exactly one
\* entry, a successful remove_agent takes exactly one away, a failed call
\* changes nothing, and a move_agent call never changes the total, for agents
\* with and without a position field and after a remove_agent.
C1_TotalFollowsPlaceAndRemove ==
    [][/\ lastCall'.op = "place_agent" =>
            Len(Flatten(agents')) = Entries + (IF lastCall'.ret THEN 1 ELSE 0)
       /\ lastCall'.op = "remove_agent" =>
            Len(Flatten(agents')) = Entries - (IF lastCall'.ret THEN 1 ELSE 0)
       /\ lastCall'.op = "move_agent" => Len(Flatten(agents')) = Entries]_vars

\* C2: no coordinate key of the agents mapping maps to an empty list.
C2_NoEmptyList == \A i \in 1..Len(agents) : agents[i].val # <<>>

\* A successful remove_agent took the last agent off a tile and the key is
\* gone with it.
C2_Witness ==
    /\ lastCall.op = "remove_agent"
    /\ lastCall.ret = TRUE
    /\ agents = <<>>

\* Agent a is listed in the index exactly once, on c, and a.position is c:
\* where place_agent(a, c) puts an agent that was not on the map.
PlacedOnceAt(a, c) ==
    /\ HasPosition(a)
    /\ position[a] = c
    /\ Count(get_all_agents, a) = 1
    /\ Count(get_agents_at(c[1], c[2]), a) = 1

\* What C3 says of a move_agent(a, d) made when a stands on c.
MovedFromTo(a, c, d) ==
    /\ lastCall'.ret = TRUE
    /\ Count(DictGet(agents', c, <<>>), a) = 0
    /\ (get_agents_at(c[1], c[2]) = <<a>> => c \notin Keys(agents'))
    /\ Count(DictGet(agents', d, <<>>), a) = 1
    /\ position'[a] = d

\* C3 as stated: place_agent(a, c) has just returned true for an agent with
\* a position field, and move_agent(a, d) is called with another walkable
\* coordinate d: the call returns true, c no longer lists a, d lists a
\* exactly once and a.position is d.
C3_MoveAfterPlace ==
    [][(/\ lastCall.op = "place_agent"
        /\ lastCall.ret = TRUE
        /\ HasPosition(lastCall.agent)
        /\ lastCall'.op = "move_agent"
        /\ lastCall'.agent = lastCall.agent
        /\ lastCall'.pos # lastCall.pos
        /\ is_walkable(lastCall'.pos[1], lastCall'.pos[2]))
       => MovedFromTo(lastCall.agent, lastCall.pos, lastCall'.pos)]_vars

\* C3, amended: the same of a move_agent(a, d) made when a is listed exactly
\* once, on the walkable coordinate c = a.position.
C3_MoveOfAgentListedOnce ==
    [][(/\ lastCall'.op = "move_agent"
        /\ HasPosition(lastCall'.agent)
        /\ position[lastCall'.agent] # None
        /\ PlacedOnceAt(lastCall'.agent, position[lastCall'.agent])
        /\ is_walkable(position[lastCall'.agent][1],
                       position[lastCall'.agent][2])
        /\ lastCall'.pos # position[lastCall'.agent]
        /\ is_walkable(lastCall'.pos[1], lastCall'.pos[2]))
       => MovedFromTo(lastCall'.agent, position[lastCall'.agent],
                      lastCall'.pos)]_vars

\* move_agent has taken a1 from (0,0), where it stood beside a2, to (1,0).
C3_Witness ==
    /\ lastCall = CallFrom("move_agent", "a1", <<1, 0>>, TRUE, <<0, 0>>)
    /\ position["a1"] = <<1, 0>>
    /\ get_agents_at(0, 0) = <<"a2">>
    /\ get_agents_at(1, 0) = <<"a1">>

----------------------------------------------------------------------------
(* Claims about the Dungeon, checked under SpecDungeon.                    *)

\* C4: go_down_stairs returns true and adds exactly 1 to current_floor if
\* and only if current_floor < max_floors before the call, go_up_stairs
\* returns true and takes exactly 1 off if and only if current_floor > 1; in
\* every other case the call returns false and current_floor is unchanged.
C4_StairsMoveOneFloorIffInside ==
    [][/\ lastCall'.op = "go_down_stairs" =>
            IF current_floor < max_floors
            THEN lastCall'.ret = TRUE /\ current_floor' = current_floor + 1
            ELSE lastCall'.ret = FALSE /\ current_floor' = current_floor
       /\ lastCall'.op = "go_up_stairs" =>
            IF current_floor > 1
            THEN lastCall'.ret = TRUE /\ current_floor' = current_floor - 1
            ELSE lastCall'.ret = FALSE /\ current_floor' = current_floor]_vars

\* go_down_stairs has been refused on the last floor.
C4_Witness ==
    /\ lastCall.op = "go_down_stairs"
    /\ lastCall.ret = FALSE
    /\ current_floor = max_floors

\* C5: 1 <= current_floor <= max_floors in every reachable state.
C5_FloorInRange == 1 <= current_floor /\ current_floor <= max_floors

\* go_up_stairs has been refused on the first floor, after a reset that
\* followed a visit to the last floor.
C5_Witness ==
    /\ lastCall.op = "go_up_stairs"
    /\ lastCall.ret = FALSE
    /\ current_floor = 1
    /\ max_floors \in Keys(before_reset)

\* C6: a floor that is cached stays cached, as the same GameMap object, in
\* every step but reset_dungeon, and get_current_floor returns the cached
\* object of the current floor.
C6_CachedFloorKept ==
    [][/\ lastCall'.op # "reset_dungeon" =>
            \A n \in Keys(floors) :
                n \in Keys(floors') /\ DictAt(floors', n) = DictAt(floors, n)
       /\ (lastCall'.op = "get_current_floor"
           /\ current_floor \in Keys(floors)) =>
            lastCall'.ret = DictAt(floors, current_floor)]_vars

\* Floor 1 was generated first and floor 2 second; back on floor 1,
\* get_current_floor returns the first object.
C6_Witness ==
    /\ lastCall.op = "get_current_floor"
    /\ current_floor = 1
    /\ Keys(floors) = {1, 2}
    /\ DictAt(floors, 2).id > DictAt(floors, 1).id
    /\ lastCall.ret = DictAt(floors, 1)
    /\ created = 2

\* C7: reset_dungeon leaves the floor cache empty and current_floor at 1, and
\* the get_current_floor call that follows it constructs a new GameMap for
\* floor 1, which is none of the objects cached before the reset.
C7_ResetThenFreshFloor ==
    [][/\ lastCall'.op = "reset_dungeon" =>
            floors' = <<>> /\ current_floor' = 1
       /\ (lastCall.op = "reset_dungeon"
           /\ lastCall'.op = "get_current_floor") =>
            /\ lastCall'.ret.floor_number = 1
            /\ lastCall'.ret = DictAt(floors', 1)
            /\ created' = created + 1
            /\ \A i \in 1..Len(before_reset) :
                   before_reset[i].val.id # lastCall'.ret.id]_vars

\* After a reset of a Dungeon that had floor 1 cached, get_current_floor has
\* returned another object for floor 1, with the layout the old one had.
C7_Witness ==
    /\ lastCall.op = "get_current_floor"
    /\ 1 \in Keys(before_reset)
    /\ lastCall.ret.floor_number = 1
    /\ lastCall.ret.id # DictAt(before_reset, 1).id
    /\ lastCall.ret.layout = DictAt(before_reset, 1).layout

----------------------------------------------------------------------------
(* Claims about generate_map, checked under SpecGen.                       *)

StairsDownTiles ==
    {<<x, y>> \in (0..(width - 1)) \X (0..(height - 1)) :
        tiles[y][x] = "STAIRS_DOWN"}

\* C8: when generate_map has accepted at least 2 rooms, the grid has exactly
\* one STAIRS_DOWN tile, at stairs_position, in the interior of a room other
\* than rooms[0] and on no tile rooms[0] contains.
C8_OneStairsOutsideFirstRoom ==
    (pc = "done" /\ Len(rooms) >= 2) =>
        /\ StairsDownTiles = {stairs_position}
        /\ \E i \in 2..Len(rooms) : stairs_position \in get_inner_area(rooms[i])
        /\ ~contains_point(rooms[1], stairs_position[1], stairs_position[2])

\* generate_map is over with two rooms and stairs.
C8_Witness ==
    /\ pc = "done"
    /\ Len(rooms) >= 2
    /\ stairs_position # None

\* C9: when generate_map has accepted at least 1 room and set spawn_point,
\* spawn_point is an interior tile of rooms[0] and its tile is FLOOR (so
\* walkable) at the end of generation.
C9_SpawnOnFloorOfFirstRoom ==
    (pc = "done" /\ Len(rooms) >= 1 /\ spawn_point # None) =>
        /\ spawn_point \in {<<x, y>> \in (0..(width - 1)) \X (0..(height - 1)) :
                /\ rooms[1].x < x /\ x < rooms[1].x + rooms[1].width - 1
                /\ rooms[1].y < y /\ y < rooms[1].y + rooms[1].height - 1}
        /\ tiles[spawn_point[2]][spawn_point[1]] = "FLOOR"
        /\ is_walkable(spawn_point[1], spawn_point[2])

\* generate_map is over; a corridor and the stairs were made and the spawn
\* point is the centre of rooms[0], where the corridor starts.
C9_Witness ==
    /\ pc = "done"
    /\ Len(rooms) >= 2
    /\ stairs_position # None
    /\ spawn_point = center(rooms[1])

\* C10: no two distinct rooms of the rooms list intersect.
C10_RoomsDisjoint ==
    \A i \in 1..Len(rooms), j \in 1..Len(rooms) :
        i # j => ~intersects(rooms[i], rooms[j])

\* generate_map is over with two rooms: as _generate_rooms made at least
\* min_rooms attempts, it discarded candidates.
C10_Witness ==
    /\ pc = "done"
    /\ Len(rooms) = 2

\* The tiles of the outer border of the grid.
BorderTiles ==
    {<<x, y>> \in (0..(width - 1)) \X (0..(height - 1)) :
        x = 0 \/ y = 0 \/ x = width - 1 \/ y = height - 1}

\* C11: during and after generate_map every tile of the outer border is
\* WALL, and so not walkable: neither a room nor a corridor changes one.
C11_BorderStaysWall ==
    \A p \in BorderTiles :
        tiles[p[2]][p[1]] = "WALL" /\ ~is_walkable(p[1], p[2])

\* generate_map is over with a room that starts in column 1, a room that
\* ends in column width - 2, and the corridor between them.
C11_Witness ==
    /\ pc = "done"
    /\ Len(rooms) = 2
    /\ \E i \in 1..2 : rooms[i].x = 1 /\ rooms[i].y = 1
    /\ \E i \in 1..2 : rooms[i].x + rooms[i].width = width - 1

----------------------------------------------------------------------------
(* Claims about has_line_of_sight, checked under SpecLos.                  *)

LosCalled == frame.op = "has_line_of_sight"

LosReturned == LosCalled /\ frame.pc = "done"

Manhattan(f) == Abs(f.x1 - f.x2) + Abs(f.y1 - f.y2)

\* The remaining Chebyshev distance max(|x2-x|, |y2-y|).
Chebyshev(f) == Max(Abs(f.x2 - f.x), Abs(f.y2 - f.y))

Transparent(x, y) ==
    is_valid_position(x, y) /\ TileTransparent(tiles[y][x])

Adjacent(f) == Max(Abs(f.x2 - f.x1), Abs(f.y2 - f.y1)) = 1

\* C12: a call of has_line_of_sight whose points are at a Manhattan distance
\* above max_range returns false, whatever the grid holds.
C12_OutOfRangeIsFalse ==
    LosReturned /\ Manhattan(frame) > frame.max_range => lastCall.ret = FALSE

\* The call is rejected for the distance alone: the grid is all floor and
\* both points are tiles of it.
C12_Witness ==
    /\ LosReturned
    /\ Manhattan(frame) > frame.max_range
    /\ frame.max_range > 0
    /\ tiles = LosOpenTiles
    /\ is_valid_position(frame.x1, frame.y1) /\ is_valid_position(frame.x2, frame.y2)
    /\ lastCall.ret = FALSE

\* C13 as stated: from every tile of the grid, whatever its kind, the call
\* to the tile itself is true, and so is the call to every adjacent
\* transparent tile within max_range.
C13_ReflexiveAdjacent ==
    LosReturned /\ is_valid_position(frame.x1, frame.y1) =>
        /\ Manhattan(frame) = 0 => lastCall.ret = TRUE
        /\ (/\ Adjacent(frame)
            /\ Transparent(frame.x2, frame.y2)
            /\ Manhattan(frame) <= frame.max_range) => lastCall.ret = TRUE

\* C13 amended: from every tile of the grid, whatever its kind, the call to
\* the tile itself is true; from a transparent tile the call to every
\* adjacent transparent tile within max_range is true.
C13_ReflexiveAdjacentFromTransparent ==
    LosReturned /\ is_valid_position(frame.x1, frame.y1) =>
        /\ Manhattan(frame) = 0 => lastCall.ret = TRUE
        /\ (/\ Adjacent(frame)
            /\ Transparent(frame.x1, frame.y1)
            /\ Transparent(frame.x2, frame.y2)
            /\ Manhattan(frame) <= frame.max_range) => lastCall.ret = TRUE

\* Sight from the stairs to a tile next to it, with the range that just
\* allows it.
C13_Witness ==
    /\ LosReturned
    /\ tiles = LosMapTiles
    /\ <<frame.x1, frame.y1>> = <<2, 1>>
    /\ Adjacent(frame)
    /\ Transparent(frame.x2, frame.y2)
    /\ Manhattan(frame) = frame.max_range
    /\ lastCall.ret = TRUE

\* The points the walk from the locals f visits before it reaches the
\* endpoint, whatever the grid holds, in at most fuel iterations.
RECURSIVE WalkFrom(_, _)
WalkFrom(f, fuel) ==
    IF (f.x = f.x2 /\ f.y = f.y2) \/ fuel = 0
    THEN {}
    ELSE {<<f.x, f.y>>} \cup WalkFrom(LosAdvance(f), fuel - 1)

\* The points of the whole walk of the call, the start point included, the
\* endpoint excluded.
Walk(f) ==
    WalkFrom([f EXCEPT !.x = f.x1, !.y = f.y1,
                       !.err = Abs(f.x2 - f.x1) - Abs(f.y2 - f.y1)],
             Max(Abs(f.x2 - f.x1), Abs(f.y2 - f.y1)))

\* C18: the call returns true exactly when the Manhattan distance is at
\* most max_range and every point the walk visits before the endpoint, the
\* start point included, is in bounds and transparent; the endpoint's tile
\* is not looked at.
C18_TrueIffRangeAndClearWalk ==
    LosReturned =>
        lastCall.ret = (/\ Manhattan(frame) <= frame.max_range
                        /\ \A p \in Walk(frame) : Transparent(p[1], p[2]))

\* Sight onto a wall, and onto a point outside the grid, over a clear walk.
C18_Witness ==
    /\ LosReturned
    /\ lastCall.ret = TRUE
    /\ Walk(frame) # {}
    /\ ~Transparent(frame.x2, frame.y2)
    /\ tiles = LosMapTiles

\* From the locals f every iteration of the walk, whatever the grid holds,
\* brings the point strictly nearer to the endpoint in Chebyshev distance,
\* and the walk is on the endpoint after at most fuel iterations.
RECURSIVE WalkDecreases(_, _)
WalkDecreases(f, fuel) ==
    IF f.x = f.x2 /\ f.y = f.y2 THEN TRUE
    ELSE IF fuel = 0 THEN FALSE
    ELSE /\ Chebyshev(LosAdvance(f)) < Chebyshev(f)
         /\ WalkDecreases(LosAdvance(f), fuel - 1)

\* C19: the loop terminates.  For every call, points outside the grid
\* included, the walk without the tests goes strictly nearer to the endpoint
\* with each iteration; an iteration of the loop that does not return does
\* the same; and a call that returns true has its point exactly on (x2,y2).
C19_LoopTerminates ==
    [][/\ (frame = NoFrame /\ frame' # NoFrame) =>
              WalkDecreases([frame' EXCEPT !.x = frame'.x1, !.y = frame'.y1,
                                 !.err = Abs(frame'.x2 - frame'.x1)
                                         - Abs(frame'.y2 - frame'.y1)],
                            Chebyshev([frame' EXCEPT !.x = frame'.x1,
                                                     !.y = frame'.y1]))
       /\ (frame # NoFrame /\ frame.pc = "loop" /\ frame'.pc = "loop") =>
              Chebyshev(frame') < Chebyshev(frame)
       /\ (frame # NoFrame /\ frame.pc = "loop" /\ frame'.pc = "done"
           /\ lastCall'.ret = TRUE) =>
              frame'.x = frame'.x2 /\ frame'.y = frame'.y2]_vars

\* A call between two points outside the grid on opposite sides, and a walk
\* that has come to its endpoint after more than two iterations.
C19_Witness ==
    /\ LosReturned
    /\ lastCall.ret = TRUE
    /\ frame.x = frame.x2 /\ frame.y = frame.y2
    /\ Abs(frame.x2 - frame.x1) >= 3
    /\ Abs(frame.y2 - frame.y1) >= 1

----------------------------------------------------------------------------
(* Further claims about the AgentManager, checked under SpecAgents.        *)

\* C15: place_agent and move_agent with a destination that is out of bounds
\* or not walkable return false and leave the index and every agent's
\* position as they were.
C15_FailedPlaceOrMoveChangesNothing ==
    [][(/\ lastCall'.op \in {"place_agent", "move_agent"}
        /\ ~is_walkable(lastCall'.pos[1], lastCall'.pos[2]))
       => /\ lastCall'.ret = FALSE
          /\ agents' = agents
          /\ position' = position]_vars

\* A move of a listed agent off the map has failed and the agent is still
\* listed where it was.
C15_Witness ==
    /\ lastCall = Call("move_agent", "a1", <<-1, 0>>, FALSE)
    /\ position["a1"] = <<1, 1>>
    /\ get_agents_at(1, 1) = <<"a1">>

\* C20: move_agent onto a walkable tile that holds other agents returns true
\* although can_move_to is false for the tile (with and without the agent
\* excluded), and the tile's list is the
\* list it had followed by the arriving agent.
C20_MoveStacksInArrivalOrder ==
    [][(/\ lastCall'.op = "move_agent"
        /\ is_walkable(lastCall'.pos[1], lastCall'.pos[2])
        /\ get_agents_at(lastCall'.pos[1], lastCall'.pos[2]) # <<>>
        /\ lastCall'.agent
               \notin Range(get_agents_at(lastCall'.pos[1], lastCall'.pos[2])))
       => /\ lastCall'.ret = TRUE
          /\ ~can_move_to(lastCall'.pos[1], lastCall'.pos[2], NoAgent)
          /\ ~can_move_to(lastCall'.pos[1], lastCall'.pos[2], lastCall'.agent)
          /\ DictGet(agents', lastCall'.pos, <<>>)
                 = Append(get_agents_at(lastCall'.pos[1], lastCall'.pos[2]),
                          lastCall'.agent)]_vars

\* a1 has moved from (0,0) onto the tile of a2.
C20_Witness ==
    /\ lastCall = CallFrom("move_agent", "a1", <<1, 0>>, TRUE, <<0, 0>>)
    /\ get_agents_at(1, 0) = <<"a2", "a1">>
    /\ position["a1"] = <<1, 0>>
    /\ position["a2"] = <<1, 0>>
    /\ ~can_move_to(1, 0, NoAgent)

----------------------------------------------------------------------------
(* Claims about the tile methods of GameMap, checked under SpecTiles.      *)

\* C16: on coordinates that is_valid_position rejects, negative ones
\* included, is_walkable returns false, get_tile returns None, and set_tile
\* returns false and leaves every tile as it was.
C16_InvalidPositionIsNegativeResult ==
    [][(/\ lastCall'.op \in {"is_walkable", "get_tile", "set_tile"}
        /\ ~is_valid_position(lastCall'.pos[1], lastCall'.pos[2]))
       => /\ lastCall'.op = "is_walkable" => lastCall'.ret = FALSE
          /\ lastCall'.op = "get_tile" => lastCall'.ret = NoTile
          /\ lastCall'.op = "set_tile" => lastCall'.ret = FALSE
          /\ tiles' = tiles]_vars

\* set_tile of a floor on a negative coordinate has been refused on a map
\* that holds a floor tile from an earlier set_tile: the tile that the
\* negative index would reach is still a wall.
C16_Witness ==
    /\ lastCall = Call("set_tile", NoAgent, <<-1, 0>>, FALSE)
    /\ frame.tile_type = "FLOOR"
    /\ tiles[0][0] = "FLOOR"
    /\ tiles[0][1] = "WALL"

----------------------------------------------------------------------------
(* Claims about Room.intersects, checked under SpecRoom.                   *)

\* The tiles of the rectangle [x, x+width) x [y, y+height).
RoomTiles(room) ==
    (room.x..(room.x + room.width - 1)) \X (room.y..(room.y + room.height - 1))

\* C17: for rooms a, b of positive width and height a.intersects(b) equals
\* b.intersects(a), it is true exactly when the two rectangles share a tile,
\* and it is false when a's right edge is b's left edge or a's bottom edge
\* is b's top edge.
C17_IntersectsSymmetricAndStrict ==
    frame.op = "intersects" =>
        /\ lastCall.ret = intersects(frame.other, frame.self)
        /\ lastCall.ret = (RoomTiles(frame.self) \cap RoomTiles(frame.other) # {})
        /\ (\/ frame.self.x + frame.self.width = frame.other.x
            \/ frame.self.y + frame.self.height = frame.other.y)
           => lastCall.ret = FALSE

\* Two rooms side by side on the same rows, the right edge of one on the
\* left edge of the other, found not to intersect; called on the right one.
C17_Witness ==
    /\ frame.op = "intersects"
    /\ frame.other.x + frame.other.width = frame.self.x
    /\ frame.self.y = frame.other.y
    /\ frame.self.height = frame.other.height
    /\ lastCall.ret = FALSE

----------------------------------------------------------------------------
(* Claims about MapRenderer.render_map, checked under SpecRender.          *)

Rendered == frame.op = "render_map"

\* The requested viewport: the argument, or the map's dimension.
RequestedWidth == IF Given(frame.viewport_width) THEN frame.viewport_width[1]
                  ELSE width

RequestedHeight == IF Given(frame.viewport_height) THEN frame.viewport_height[1]
                   ELSE height

\* A center is given when both of its coordinates are.
Centered == Given(frame.center_x) /\ Given(frame.center_y)

\* start = max(0, center - viewport // 2), 0 without a center
StartX == IF Centered THEN Max(0, frame.center_x[1] - RequestedWidth \div 2)
          ELSE 0

StartY == IF Centered THEN Max(0, frame.center_y[1] - RequestedHeight \div 2)
          ELSE 0

\* end = min(map dimension, start + viewport)
EndX == Min(width, StartX + RequestedWidth)

EndY == Min(height, StartY + RequestedHeight)

\* C14 as stated: render_map returns exactly end_y - start_y rows of
\* end_x - start_x characters each.
C14_RowsAreEndMinusStart ==
    Rendered =>
        /\ Len(lastCall.ret) = EndY - StartY
        /\ \A i \in 1..Len(lastCall.ret) : Len(lastCall.ret[i]) = EndX - StartX

\* C14 amended: render_map returns max(0, end_y - start_y) rows of
\* max(0, end_x - start_x) characters each, the cell (start_x + j,
\* start_y + i) in column j of row i; that is height rows of width
\* characters with no arguments, and never more rows or columns than the
\* requested viewport.
C14_RowsAreClippedWindow ==
    Rendered =>
        /\ Len(lastCall.ret) = Max(0, EndY - StartY)
        /\ \A i \in 1..Len(lastCall.ret) :
               /\ Len(lastCall.ret[i]) = Max(0, EndX - StartX)
               /\ \A j \in 1..Len(lastCall.ret[i]) :
                      lastCall.ret[i][j] = render_cell(StartX + j - 1,
                                                       StartY + i - 1)
        /\ Len(lastCall.ret) <= RequestedHeight
        /\ \A i \in 1..Len(lastCall.ret) : Len(lastCall.ret[i]) <= RequestedWidth
        /\ (/\ ~Given(frame.viewport_width) /\ ~Given(frame.viewport_height)
            /\ ~Given(frame.center_x) /\ ~Given(frame.center_y))
           => /\ Len(lastCall.ret) = height
              /\ \A i \in 1..height : Len(lastCall.ret[i]) = width

\* A viewport of the map's width and one row centered on (2, 1): the window
\* is cut at the far edge, one column narrower than asked for, and shows the
\* agent on (1, 1) in its first column.
C14_Witness ==
    /\ Rendered
    /\ frame.viewport_width = <<3>>
    /\ frame.viewport_height = <<1>>
    /\ frame.center_x = <<2>>
    /\ frame.center_y = <<1>>
    /\ Len(lastCall.ret) > 0
    /\ Len(lastCall.ret[1]) = 2
    /\ lastCall.ret[1][1] = "g"

----------------------------------------------------------------------------
(* Claims about callers that test can_move_to, checked under SpecGuarded.  *)

\* C21 as stated: when every place_agent and move_agent is made after
\* can_move_to(destination, exclude_agent=the agent) returned true, no
\* coordinate of the index holds more than one entry.
C21_SingleOccupancy == \A i \in 1..Len(agents) : Len(agents[i].val) <= 1

\* Every agent is listed at most once in the index, and an agent with a
\* position field that is listed is listed under its position.
ListedOnceAtPosition ==
    \A a \in Agents :
        /\ Count(get_all_agents, a) <= 1
        /\ (HasPosition(a) /\ Count(get_all_agents, a) = 1) =>
               /\ position[a] # None
               /\ a \in Range(get_agents_at(position[a][1], position[a][2]))

\* C21 amended: when in addition place_agent is called only for an agent
\* that is not in the index and move_agent only for an agent with a position
\* field, single occupancy holds after every sequence of guarded calls and
\* remove_agent calls.  Stated as the step of the induction: from an index
\* with single occupancy and every agent listed once, under its position,
\* each such call leaves an index of the same kind; the empty index is one.
C21_GuardedFreshPlacesKeepSingleOccupancy ==
    [][(/\ C21_SingleOccupancy
        /\ ListedOnceAtPosition
        /\ lastCall'.op = "place_agent" =>
               Count(get_all_agents, lastCall'.agent) = 0
        /\ lastCall'.op = "move_agent" => HasPosition(lastCall'.agent))
       => (C21_SingleOccupancy /\ ListedOnceAtPosition)']_vars

\* a1 and a2 stand on two tiles, each listed once under its position, and
\* can_move_to refuses a1 the tile of a2.
C21_Witness ==
    /\ lastCall = Call("can_move_to", "a1", <<0, 0>>, FALSE)
    /\ agents = <<[key |-> <<0, 0>>, val |-> <<"a2">>],
                  [key |-> <<1, 0>>, val |-> <<"a1">>]>>
    /\ position["a1"] = <<1, 0>>
    /\ position["a2"] = <<0, 0>>

----------------------------------------------------------------------------
(* Claims about the effects of MapRenderer, checked under SpecRender.      *)

\* C22: render_map, for every viewport and center, and get_map_info leave
\* the map and the index as they were: tiles, dimensions, rooms, stairs and
\* spawn are unchanged and the index has the same keys and lists, so a
\* lookup of an unoccupied coordinate inserts no key; the agents' position
\* fields are unchanged too.
C22_RendererChangesNothing ==
    [][lastCall'.op \in {"render_map", "get_map_info"} =>
           /\ UNCHANGED <<width, height, tiles, rooms, stairs_position,
                          spawn_point>>
           /\ agents' = agents
           /\ position' = position]_vars

\* The whole map has been rendered, unoccupied tiles included, and the
\* index still holds its one key.
C22_Witness ==
    /\ frame.op = "render_map"
    /\ Len(lastCall.ret) = height
    /\ Len(lastCall.ret[1]) = width
    /\ lastCall.ret[1][1] = "@"
    /\ agents = <<[key |-> <<0, 0>>, val |-> <<"a1">>]>>

----------------------------------------------------------------------------
(* Claims about the corridors of generate_map, checked under SpecGen.      *)

WalkableTiles ==
    {p \in (0..(width - 1)) \X (0..(height - 1)) : is_walkable(p[1], p[2])}

\* The walkable tiles 4-adjacent to a tile of S.
Neighbours(S) ==
    {q \in UNION {{<<p[1] + 1, p[2]>>, <<p[1] - 1, p[2]>>,
                    <<p[1], p[2] + 1>>, <<p[1], p[2] - 1>>} : p \in S} :
        is_walkable(q[1], q[2])}

\* The tiles reachable by steps between 4-adjacent walkable tiles: seen are
\* the tiles reached so far, frontier those of them reached last.
RECURSIVE Reachable(_, _)
Reachable(seen, frontier) ==
    LET new == Neighbours(frontier) \ seen
    IN  IF new = {} THEN seen ELSE Reachable(seen \cup new, new)

ReachableFrom(S) == Reachable(S, S)

----------------------------------------------------------------------------
(* Claims about the position field, checked under SpecAgents.              *)

\* C24 as stated: after any place_agent, move_agent and remove_agent calls
\* every agent with a position field that is in the index is listed under
\* the coordinate of its position field and under no other.
C24_ListedUnderPositionOnly ==
    \A a \in Agents : \A i \in 1..Len(agents) :
        (HasPosition(a) /\ a \in Range(agents[i].val)) =>
            agents[i].key = position[a]

\* No agent with a position field is listed more than once.
PositionAgentsListedOnce ==
    \A a \in Agents : HasPosition(a) => Count(get_all_agents, a) <= 1

\* C24 amended: when place_agent is never called for an agent that is in
\* the index, every agent with a position field that is in the index is
\* listed once, under the coordinate of its position field.  Stated as the
\* step of the induction: from an index of that kind every call that is not
\* a place_agent of a listed agent leaves an index of that kind; the empty
\* index is one.
C24_FreshPlacesKeepPositionAndIndexAgreed ==
    [][(/\ C24_ListedUnderPositionOnly
        /\ PositionAgentsListedOnce
        /\ lastCall'.op = "place_agent" =>
               Count(get_all_agents, lastCall'.agent) = 0)
       => (C24_ListedUnderPositionOnly /\ PositionAgentsListedOnce)']_vars

\* a1, taken off the map with its position field left as it was, has been
\* moved: it is listed under its new position only, next to a2.
C24_Witness ==
    /\ lastCall = CallFrom("move_agent", "a1", <<1, 0>>, TRUE, None)
    /\ agents = <<[key |-> <<0, 0>>, val |-> <<"a2">>],
                  [key |-> <<1, 0>>, val |-> <<"a1">>]>>
    /\ position["a1"] = <<1, 0>>
    /\ position["a2"] = <<0, 0>>

====
